---------------------------- MODULE Spec2Model ----------------------------
(***************************************************************************)
(* A model of func_adl_uproot/transformer.py: the class                    *)
(* PythonSourceGeneratorTransformer, which lowers a query AST to Python    *)
(* source text.  The AST lives in a heap of nodes (node identity matters:  *)
(* the rep is attached to the node object and three handlers rewrite the   *)
(* tree in place); a rep is the text the code builds; the scope table is   *)
(* _id_scopes.  One action is one call of an entry point (visit,           *)
(* generic_visit, get_rep) on a node, with the whole recursive descent;    *)
(* a Python exception is the field exc of the evaluation record, and it    *)
(* ends every enclosing handler at the point where it is raised.           *)
(***************************************************************************)
EXTENDS Integers, Sequences, FiniteSets, TLC

VARIABLES
  ver,      \* the interpreter: 27, 37, 38 or 39 (sys.version_info)
  held,     \* the nodes the caller holds and hands to the transformer
  parsed,   \* history: the query as the parser made it, before any lowering
  heap,     \* the AST nodes, by identity 1..Len(heap)
  reps,     \* reps[n]: <<>> while node n has no attribute rep, else <<text>>
  scopes,   \* _id_scopes: name -> count, only the names present
  wraps,    \* history: per node, how often each in-place rewrite ran on it
  last      \* history: the last entry-point call, its outcome, the state before

vars == <<ver, held, parsed, heap, reps, scopes, wraps, last>>

\* Bound: the in-place rewrites one run of the model may perform in total.
MaxRewrites == 3
\* Bound: the bindings of one name the scope table may hold at once.
MaxBindings == 2
\* Bound: the most positional arguments given to an EventDataset call.
MaxDatasetArgs == 3

NoRep == <<>>
EmptyScopes == [x \in {} |-> 0]
NoWraps == [record |-> 0, flatten |-> 0, mask |-> 0]

---------------------------------------------------------------------------
(* The module's constants.                                                 *)

input_filenames_argument_name == "input_filenames"
tree_name_argument_name == "tree_name"

unary_op_dict == [UAdd |-> "+", USub |-> "-", Invert |-> "~"]

bin_op_dict ==
  [Add |-> "+", Sub |-> "-", Mult |-> "*", Div |-> "/", FloorDiv |-> "//",
   Mod |-> "%", Pow |-> "**", LShift |-> "<<", RShift |-> ">>",
   BitOr |-> "|", BitXor |-> "^", BitAnd |-> "&"]

bool_op_dict == [And |-> "np.logical_and", Or |-> "np.logical_or"]

compare_op_dict ==
  [Eq |-> "==", NotEq |-> "!=", Lt |-> "<", LtE |-> "<=", Gt |-> ">",
   GtE |-> ">=", Is |-> "is", IsNot |-> "is not", In |-> "in",
   NotIn |-> "not in"]

\* globals() of the module: its imports and its top-level names.
get_globals ==
  {"ast", "sys", "urlparse", "awkward", "uproot",
   "input_filenames_argument_name", "tree_name_argument_name",
   "unary_op_dict", "bin_op_dict", "bool_op_dict", "compare_op_dict",
   "PythonSourceGeneratorTransformer",
   "__name__", "__doc__", "__package__", "__loader__", "__spec__",
   "__file__", "__builtins__"}

---------------------------------------------------------------------------
(* Nodes.  One record shape for every node class:                          *)
(*   kind  the class name ("Other": a class with no visit_ method)         *)
(*   s     id / attr / arg / the text of a str or of True, False, None     *)
(*   n     the value of a number                                           *)
(*   vt    Constant: "int", "str" or "name"; Name: the ctx ("" if absent)  *)
(*   ops   the operator class names                                        *)
(*   kids, kids2  the child nodes (0 is None), per class:                  *)
(*     Module body | Expr value | List, Tuple elts | Dict keys, values     *)
(*     UnaryOp operand | BinOp left right | BoolOp values                  *)
(*     Compare left, comparators | IfExp test body orelse | Index value    *)
(*     Slice lower upper step | ExtSlice dims | Subscript value slice      *)
(*     Attribute value | Lambda body, args.args | Call func, args          *)
(*     Select, SelectMany source selector | Where source predicate         *)
(***************************************************************************)
N(kind, s, n, vt, ops, kids, kids2) ==
  [kind |-> kind, s |-> s, n |-> n, vt |-> vt, ops |-> ops,
   kids |-> kids, kids2 |-> kids2]

RECURSIVE Join(_, _)
\* sep.join(lst)
Join(lst, sep) ==
  IF lst = <<>> THEN ""
  ELSE IF Len(lst) = 1 THEN lst[1]
  ELSE lst[1] \o sep \o Join(Tail(lst), sep)

\* repr of a str (the texts of the model hold no quote and no backslash)
ReprStr(s) == "'" \o s \o "'"

\* repr of a Constant's value
ReprValue(nd) ==
  IF nd.vt = "int" THEN ToString(nd.n)
  ELSE IF nd.vt = "str" THEN ReprStr(nd.s)
  ELSE nd.s

\* ''.join(urlparse(url)[1:]): netloc, path, params, query, fragment, for the
\* locations the model's queries name
UrlPath(url) ==
  CASE url = "file:///a.root" -> "/a.root"
    [] url = "root://h/a.root" -> "h/a.root"
    [] OTHER -> url

---------------------------------------------------------------------------
(* The evaluation record: the transformer and the tree during one call.    *)
(* exc is "" or the class of the exception in flight; txt is the value     *)
(* get_rep returned last, lst the list a comprehension built last.         *)

Raise(st, e) == [st EXCEPT !.exc = e]
HasRep(st, n) == st.reps[n] # NoRep
SetRep(st, n, text) == [st EXCEPT !.reps[n] = <<text>>]

\* a new node object (the ast.X(...) constructor calls of the handlers)
Alloc(st, nd) ==
  [st EXCEPT !.heap = Append(@, nd), !.reps = Append(@, NoRep),
             !.wraps = Append(@, NoWraps)]
NewId(st) == Len(st.heap) + 1

Bind(sc, a) ==
  IF a \in DOMAIN sc THEN [sc EXCEPT ![a] = @ + 1]
  ELSE [x \in DOMAIN sc \cup {a} |-> IF x = a THEN 1 ELSE sc[x]]

Unbind(sc, a) ==
  IF sc[a] - 1 = 0 THEN [x \in DOMAIN sc \ {a} |-> sc[x]]
  ELSE [sc EXCEPT ![a] = @ - 1]

RECURSIVE BindAll(_, _)
BindAll(sc, names) ==
  IF names = <<>> THEN sc ELSE BindAll(Bind(sc, Head(names)), Tail(names))

RECURSIVE UnbindAll(_, _)
UnbindAll(sc, names) ==
  IF names = <<>> THEN sc ELSE UnbindAll(Unbind(sc, Head(names)), Tail(names))

\* resolve_id: TRUE when the id is returned, FALSE when NameError is raised
resolve_id(sc, id) ==
  \/ id \in {"True", "False", "None"}
  \/ id \in DOMAIN sc
  \/ id \in get_globals
  \/ id \in {"abs", "all", "any", "len", "max", "min", "sum"}

---------------------------------------------------------------------------
(* The lowering.  Every operator takes the evaluation record and a node    *)
(* and gives the evaluation record after the call; a call made while an    *)
(* exception is in flight does not happen (the IF s.exc # "" tests).       *)

RECURSIVE visit(_, _), get_rep(_, _), get_rep_list(_, _, _, _),
          dict_items(_, _, _, _, _), compare_loop(_, _, _),
          super_generic_visit(_, _, _), visit_Select(_, _)

\* the generic branch of visit_Call, lines 273-275, on func and args: also how
\* the ast.Call(func=lambda, args=[source]) of the three operators is lowered
\* (that Call object is referenced by nothing once its rep is read, lines
\* 293-294, 337-338: its own func is no Name)
call_rep(st, func, args) ==
  LET s1 == get_rep(st, func)
      s2 == get_rep_list(s1, args, 1, <<>>)
  IN IF s1.exc # "" THEN s1
     ELSE IF s2.exc # "" THEN s2
     ELSE [s2 EXCEPT !.txt = s1.txt \o "(" \o Join(s2.lst, ", ") \o ")"]

visit_Module(st, n) ==
  LET nd == st.heap[n]
      s1 == get_rep(st, nd.kids[1])
  IN IF Len(nd.kids) < 1 THEN SetRep(st, n, "")
     ELSE IF s1.exc # "" THEN s1
     ELSE SetRep(s1, n, s1.txt)

visit_Expr(st, n) ==
  LET s1 == get_rep(st, st.heap[n].kids[1])
  IN IF s1.exc # "" THEN s1 ELSE SetRep(s1, n, s1.txt)

visit_Constant(st, n) == SetRep(st, n, ReprValue(st.heap[n]))

visit_Num(st, n) ==
  LET nd == st.heap[n]
  IN IF nd.n < 0 THEN SetRep(st, n, "(" \o ToString(nd.n) \o ")")
     ELSE SetRep(st, n, ToString(nd.n))

visit_Str(st, n) == SetRep(st, n, ReprStr(st.heap[n].s))

visit_List(st, n) ==
  LET s1 == get_rep_list(st, st.heap[n].kids, 1, <<>>)
  IN IF s1.exc # "" THEN s1
     ELSE SetRep(s1, n, "[" \o Join(s1.lst, ", ") \o "]")

visit_Tuple(st, n) ==
  LET nd == st.heap[n]
      s1 == get_rep_list(st, nd.kids, 1, <<>>)
  IN IF s1.exc # "" THEN s1
     ELSE SetRep(s1, n, "(" \o Join(s1.lst, ", ")
                        \o (IF Len(nd.kids) = 1 THEN "," ELSE "") \o ")")

visit_Dict(st, n) ==
  LET nd == st.heap[n]
      s1 == dict_items(st, nd.kids, nd.kids2, 1, <<>>)
  IN IF s1.exc # "" THEN s1
     ELSE SetRep(s1, n, "{" \o Join(s1.lst, ", ") \o "}")

visit_Name(st, n) ==
  LET nd == st.heap[n]
  IN IF nd.vt = "Param" THEN SetRep(st, n, nd.s)
     ELSE IF resolve_id(st.scopes, nd.s) THEN SetRep(st, n, nd.s)
     ELSE Raise(st, "NameError")

visit_NameConstant(st, n) == SetRep(st, n, st.heap[n].s)

\* 'Unimplemented ... operation: ' + node.op adds an AST object to a str: the
\* message is never built and the raise statement raises TypeError instead of
\* the SyntaxError it names
visit_UnaryOp(st, n) ==
  LET nd == st.heap[n]
      s1 == get_rep(st, nd.kids[1])
  IN IF nd.ops[1] = "Not"
       THEN IF s1.exc # "" THEN s1
            ELSE SetRep(s1, n, "np.logical_not(" \o s1.txt \o ")")
     ELSE IF nd.ops[1] \notin DOMAIN unary_op_dict THEN Raise(st, "TypeError")
     ELSE IF s1.exc # "" THEN s1
     ELSE SetRep(s1, n, "(" \o unary_op_dict[nd.ops[1]] \o s1.txt \o ")")

visit_BinOp(st, n) ==
  LET nd == st.heap[n]
      s1 == get_rep(st, nd.kids[1])
      s2 == get_rep(s1, nd.kids[2])
  IN IF s1.exc # "" THEN s1
     ELSE IF nd.ops[1] \notin DOMAIN bin_op_dict THEN Raise(s1, "TypeError")
     ELSE IF s2.exc # "" THEN s2
     ELSE SetRep(s2, n, "(" \o s1.txt \o " " \o bin_op_dict[nd.ops[1]]
                        \o " " \o s2.txt \o ")")

visit_BoolOp(st, n) ==
  LET nd == st.heap[n]
      s1 == get_rep_list(st, nd.kids, 1, <<>>)
  IN IF nd.ops[1] \notin DOMAIN bool_op_dict THEN Raise(st, "TypeError")
     ELSE IF s1.exc # "" THEN s1
     ELSE SetRep(s1, n, bool_op_dict[nd.ops[1]] \o "("
                        \o Join(s1.lst, ", ") \o ")")

\* node.rep is assigned before the loop and extended in it, lines 168-175
visit_Compare(st, n) ==
  LET s1 == get_rep(st, st.heap[n].kids[1])
      s2 == compare_loop(SetRep(s1, n, "(" \o s1.txt), n, 1)
  IN IF s1.exc # "" THEN s1
     ELSE IF s2.exc # "" THEN s2
     ELSE SetRep(s2, n, s2.reps[n][1] \o ")")

visit_IfExp(st, n) ==
  LET nd == st.heap[n]
      s1 == get_rep(st, nd.kids[2])
      s2 == get_rep(s1, nd.kids[1])
      s3 == get_rep(s2, nd.kids[3])
  IN IF s1.exc # "" THEN s1
     ELSE IF s2.exc # "" THEN s2
     ELSE IF s3.exc # "" THEN s3
     ELSE SetRep(s3, n, "(" \o s1.txt \o " if " \o s2.txt \o " else "
                        \o s3.txt \o ")")

visit_Index(st, n) ==
  LET s1 == get_rep(st, st.heap[n].kids[1])
  IN IF s1.exc # "" THEN s1 ELSE SetRep(s1, n, s1.txt)

\* node.rep is assigned before the step is lowered, lines 192-195
visit_Slice(st, n) ==
  LET nd == st.heap[n]
      s1 == get_rep(st, nd.kids[1])
      s2 == get_rep(s1, nd.kids[2])
      s3 == SetRep(s2, n, s1.txt \o ":" \o s2.txt)
      s4 == get_rep(s3, nd.kids[3])
  IN IF s1.exc # "" THEN s1
     ELSE IF s2.exc # "" THEN s2
     ELSE IF s4.exc # "" THEN s4
     ELSE IF s4.txt # "" THEN SetRep(s4, n, s3.reps[n][1] \o ":" \o s4.txt)
     ELSE s4

visit_ExtSlice(st, n) ==
  LET s1 == get_rep_list(st, st.heap[n].kids, 1, <<>>)
  IN IF s1.exc # "" THEN s1 ELSE SetRep(s1, n, Join(s1.lst, ", "))

visit_Subscript(st, n) ==
  LET nd == st.heap[n]
      s1 == get_rep(st, nd.kids[1])
      sl == nd.kids[2]
      s2 == IF sl # 0 /\ s1.heap[sl].kind = "Tuple"
              THEN LET t == get_rep_list(s1, s1.heap[sl].kids, 1, <<>>)
                   IN IF t.exc # "" THEN t
                      ELSE [t EXCEPT !.txt = Join(t.lst, ", ")]
              ELSE get_rep(s1, sl)
  IN IF s1.exc # "" THEN s1
     ELSE IF s2.exc # "" THEN s2
     ELSE SetRep(s2, n, s1.txt \o "[" \o s2.txt \o "]")

visit_Attribute(st, n) ==
  LET nd == st.heap[n]
      s1 == get_rep(st, nd.kids[1])
  IN IF s1.exc # "" THEN s1
     ELSE SetRep(s1, n, "(" \o s1.txt \o "." \o nd.s \o " if hasattr("
                        \o s1.txt \o ", '" \o nd.s \o "') else " \o s1.txt
                        \o "['" \o nd.s \o "'])")

\* the bindings are removed only on the path that reaches line 231
visit_Lambda(st, n) ==
  LET nd == st.heap[n]
      s1 == get_rep_list(st, nd.kids2, 1, <<>>)
      arg_strs == s1.lst
      args_rep == Join(arg_strs, ", ")
      s2 == [s1 EXCEPT !.scopes = BindAll(@, arg_strs)]
      s3 == get_rep(s2, nd.kids[1])
      text == "(lambda" \o (IF args_rep # "" THEN " " ELSE "") \o args_rep
              \o ": " \o s3.txt \o ")"
      s4 == SetRep(s3, n, text)
  IN IF s1.exc # "" THEN s1
     ELSE IF s3.exc # "" THEN s3
     ELSE [s4 EXCEPT !.scopes = UnbindAll(@, arg_strs)]

visit_arg(st, n) == SetRep(st, n, st.heap[n].s)

RECURSIVE literal_paths(_, _, _, _)
\* [''.join(urlparse(ast.literal_eval(url))[1:]) for url in urls], line 251:
\* literal_eval gives the value of a literal and raises ValueError on a Name,
\* an Attribute, a Call, a Lambda, a Subscript (the non-literals the model's
\* queries use); urlparse of an int raises AttributeError
literal_paths(st, urls, i, acc) ==
  IF i > Len(urls) THEN [st EXCEPT !.lst = acc]
  ELSE LET nd == st.heap[urls[i]]
       IN IF nd.kind = "Str" \/ (nd.kind = "Constant" /\ nd.vt = "str")
            THEN literal_paths(st, urls, i + 1, Append(acc, UrlPath(nd.s)))
          ELSE IF nd.kind = "Num" \/ (nd.kind = "Constant" /\ nd.vt = "int")
            THEN Raise(st, "AttributeError")
          ELSE Raise(st, "ValueError")

RECURSIVE repr_strs(_)
repr_strs(lst) ==
  IF lst = <<>> THEN <<>> ELSE <<ReprStr(Head(lst))>> \o repr_strs(Tail(lst))

\* the discovery expression of lines 260-263
local_tree_name_discovery ==
  "(lambda key_array: " \o "key_array[key_array[:, 1] == 'TTree'][:, 0])("
  \o "awkward.Table(uproot.open(input_files[0]).classnames())"
  \o ".unzip()[0])[0]"

\* the arity test off by one
too_many_arguments_lax(args) == Len(args) > 3

\* len(node.args) > 2, line 243
too_many_arguments(args) == Len(args) > 2

visit_Call(st, n) ==
  LET nd == st.heap[n]
      args == nd.kids2
      func == st.heap[nd.kids[1]]
      urls == IF st.heap[args[1]].kind \in {"List", "Tuple"}
                THEN st.heap[args[1]].kids ELSE <<args[1]>>
      s1 == IF Len(args) >= 1 THEN literal_paths(st, urls, 1, <<>>) ELSE st
      source_rep ==
        IF Len(args) >= 1
          THEN input_filenames_argument_name \o " " \o "if "
               \o input_filenames_argument_name \o " is not None " \o "else "
               \o "[" \o Join(repr_strs(s1.lst), ", ") \o "]"
          ELSE input_filenames_argument_name
      s2 == IF Len(args) >= 2 THEN get_rep(s1, args[2]) ELSE s1
      local_tree_name_rep ==
        IF Len(args) >= 2 THEN s2.txt ELSE local_tree_name_discovery
      tree_name_rep ==
        "(" \o tree_name_argument_name \o " " \o "if "
        \o tree_name_argument_name \o " is not None " \o "else "
        \o local_tree_name_rep \o ")"
      s3 == call_rep(st, nd.kids[1], args)
  IN IF nd.kids[1] # 0 /\ func.kind = "Name" /\ func.s = "EventDataset"
       THEN IF too_many_arguments(args) THEN Raise(st, "TypeError")
            ELSE IF s1.exc # "" THEN s1
            ELSE IF s2.exc # "" THEN s2
            ELSE SetRep(s2, n,
                   "(lambda input_files: " \o "uproot.lazyarrays(input_files, "
                   \o "logging.getLogger(__name__).info('Using treename=' + repr("
                   \o tree_name_rep \o ")) or " \o tree_name_rep
                   \o "))(" \o source_rep \o ")")
     ELSE IF s3.exc # "" THEN s3
     ELSE SetRep(s3, n, s3.txt)

\* ast.Call(func=ast.Attribute(value=ast.Name(id='awkward'), attr='Table'),
\* args=args), lines 286-288 and 290-292: three new objects, the Call last
AllocTableCall(st, args) ==
  LET a1 == Alloc(st, N("Name", "awkward", 0, "", <<>>, <<>>, <<>>))
      a2 == Alloc(a1, N("Attribute", "Table", 0, "", <<>>, <<NewId(st)>>, <<>>))
  IN Alloc(a2, N("Call", "", 0, "", <<>>, <<NewId(a1)>>, args))

CountWrap(st, n, what) ==
  [st EXCEPT !.wraps[n] =
     [@ EXCEPT ![what] = @ + 1]]

\* the argument tests without the refusal of lambdas of several parameters
bad_lambda_argument_lax(st, lam) ==
  \/ lam = 0
  \/ st.heap[lam].kind # "Lambda"
  \/ Len(st.heap[lam].kids2) < 1

\* the argument tests shared by the three operators: 'found ' + node.selector
\* and 'found ' + len(...) add an AST object or an int to a str, so what the
\* raise statements raise is the TypeError of that addition
bad_lambda_argument(st, lam) ==
  \/ lam = 0
  \/ st.heap[lam].kind # "Lambda"
  \/ Len(st.heap[lam].kids2) # 1

visit_Select(st, n) ==
  LET nd == st.heap[n]
      source == nd.kids[1]
      selector == nd.kids[2]
      body == st.heap[selector].kids[1]
      bkind == IF body = 0 THEN "None" ELSE st.heap[body].kind
      a == AllocTableCall(st, IF bkind = "Dict" THEN <<body>>
                              ELSE st.heap[body].kids)
      s1 == IF bkind \in {"List", "Tuple", "Dict"}
              THEN CountWrap([a EXCEPT !.heap[selector].kids = <<Len(a.heap)>>],
                             n, "record")
              ELSE st
      s2 == call_rep(s1, selector, <<source>>)
  IN IF bad_lambda_argument(st, selector) THEN Raise(st, "TypeError")
     ELSE IF s2.exc # "" THEN s2
     ELSE SetRep(s2, n, s2.txt)

RECURSIVE flatten_each(_, _, _, _)
\* [ast.Call(func=ast.Attribute(value=element, attr='flatten'), args=[])
\*  for element in elements], lines 305-307 and 309-312
flatten_each(st, elements, i, acc) ==
  IF i > Len(elements) THEN [st EXCEPT !.lst = acc]
  ELSE LET a1 == Alloc(st, N("Attribute", "flatten", 0, "", <<>>,
                             <<elements[i]>>, <<>>))
           a2 == Alloc(a1, N("Call", "", 0, "", <<>>, <<NewId(st)>>, <<>>))
       IN flatten_each(a2, elements, i + 1, Append(acc, NewId(a1)))

visit_SelectMany(st, n) ==
  LET nd == st.heap[n]
      selector == nd.kids[2]
      body == st.heap[selector].kids[1]
      bkind == IF body = 0 THEN "None" ELSE st.heap[body].kind
      f == flatten_each(st, IF bkind = "Dict" THEN st.heap[body].kids2
                            ELSE IF bkind \in {"List", "Tuple"}
                              THEN st.heap[body].kids
                            ELSE <<body>>, 1, <<>>)
      s1 == IF bkind \in {"List", "Tuple"}
              THEN [f EXCEPT !.heap[body].kids = f.lst]
            ELSE IF bkind = "Dict"
              THEN [f EXCEPT !.heap[body].kids2 = f.lst]
            ELSE [f EXCEPT !.heap[selector].kids = f.lst]
      s2 == visit_Select(CountWrap(s1, n, "flatten"), n)
      s3 == get_rep(s2, n)
  IN IF bad_lambda_argument(st, selector) THEN Raise(st, "TypeError")
     ELSE IF s2.exc # "" THEN s2
     ELSE IF s3.exc # "" THEN s3
     ELSE SetRep(s3, n, s3.txt)

visit_Where(st, n) ==
  LET nd == st.heap[n]
      source == nd.kids[1]
      predicate == nd.kids[2]
      body == st.heap[predicate].kids[1]
      subscriptable == st.heap[st.heap[predicate].kids2[1]].s
      s1 == IF st.ver < 39
              THEN Alloc(st, N("Index", "", 0, "", <<>>, <<body>>, <<>>))
              ELSE st
      slice_node == IF st.ver < 39 THEN NewId(st) ELSE body
      s2 == Alloc(s1, N("Name", subscriptable, 0, "", <<>>, <<>>, <<>>))
      s3 == Alloc(s2, N("Subscript", "", 0, "", <<>>,
                        <<NewId(s1), slice_node>>, <<>>))
      s4 == CountWrap([s3 EXCEPT !.heap[predicate].kids = <<NewId(s2)>>],
                      n, "mask")
      s5 == call_rep(s4, predicate, <<source>>)
  IN IF bad_lambda_argument(st, predicate) THEN Raise(st, "TypeError")
     ELSE IF s5.exc # "" THEN s5
     ELSE SetRep(s5, n, s5.txt)

\* the children NodeTransformer.generic_visit visits, in the order of _fields
\* (Lambda: args, body; every other class: as kids, kids2 list them)
Children(nd) ==
  IF nd.kind = "Lambda" THEN nd.kids2 \o nd.kids ELSE nd.kids \o nd.kids2

\* ast.NodeTransformer.generic_visit: self.visit on every child that is a
\* node; every handler returns its node, so no child is replaced or removed
super_generic_visit(st, kids, i) ==
  IF i > Len(kids) THEN st
  ELSE LET s1 == IF kids[i] = 0 THEN st ELSE visit(st, kids[i])
       IN IF s1.exc # "" THEN s1 ELSE super_generic_visit(s1, kids, i + 1)

generic_visit(st, n) ==
  IF HasRep(st, n) THEN st
  ELSE super_generic_visit(st, Children(st.heap[n]), 1)

\* ast.NodeVisitor.visit: getattr(self, 'visit_' + class name, generic_visit)
super_visit(st, n) ==
  LET k == st.heap[n].kind
  IN CASE k = "Module" -> visit_Module(st, n)
       [] k = "Expr" -> visit_Expr(st, n)
       [] k = "Constant" -> visit_Constant(st, n)
       [] k = "Num" -> visit_Num(st, n)
       [] k = "Str" -> visit_Str(st, n)
       [] k = "List" -> visit_List(st, n)
       [] k = "Tuple" -> visit_Tuple(st, n)
       [] k = "Dict" -> visit_Dict(st, n)
       [] k = "Name" -> visit_Name(st, n)
       [] k = "NameConstant" -> visit_NameConstant(st, n)
       [] k = "UnaryOp" -> visit_UnaryOp(st, n)
       [] k = "BinOp" -> visit_BinOp(st, n)
       [] k = "BoolOp" -> visit_BoolOp(st, n)
       [] k = "Compare" -> visit_Compare(st, n)
       [] k = "IfExp" -> visit_IfExp(st, n)
       [] k = "Index" -> visit_Index(st, n)
       [] k = "Slice" -> visit_Slice(st, n)
       [] k = "ExtSlice" -> visit_ExtSlice(st, n)
       [] k = "Subscript" -> visit_Subscript(st, n)
       [] k = "Attribute" -> visit_Attribute(st, n)
       [] k = "Lambda" -> visit_Lambda(st, n)
       [] k = "arg" -> visit_arg(st, n)
       [] k = "Call" -> visit_Call(st, n)
       [] k = "Select" -> visit_Select(st, n)
       [] k = "SelectMany" -> visit_SelectMany(st, n)
       [] k = "Where" -> visit_Where(st, n)
       [] OTHER -> generic_visit(st, n)

\* visit without the test of line 51
visit_always(st, n) == super_visit(st, n)

visit(st, n) == IF HasRep(st, n) THEN st ELSE super_visit(st, n)

\* return node.rep raises AttributeError when visit left the node without one
get_rep(st, n) ==
  IF n = 0 THEN [st EXCEPT !.txt = ""]
  ELSE LET s1 == IF ~HasRep(st, n) THEN visit(st, n) ELSE st
       IN IF s1.exc # "" THEN s1
          ELSE IF ~HasRep(s1, n) THEN Raise(s1, "AttributeError")
          ELSE [s1 EXCEPT !.txt = s1.reps[n][1]]

\* [self.get_rep(x) for x in kids], evaluated left to right
get_rep_list(st, kids, i, acc) ==
  IF i > Len(kids) THEN [st EXCEPT !.lst = acc]
  ELSE LET s1 == get_rep(st, kids[i])
       IN IF s1.exc # "" THEN s1
          ELSE get_rep_list(s1, kids, i + 1, Append(acc, s1.txt))

\* get_rep(key) + ': ' + get_rep(value) for key, value in zip(keys, values)
dict_items(st, keys, values, i, acc) ==
  IF i > Len(keys) \/ i > Len(values) THEN [st EXCEPT !.lst = acc]
  ELSE LET s1 == get_rep(st, keys[i])
           s2 == get_rep(s1, values[i])
       IN IF s1.exc # "" THEN s1
          ELSE IF s2.exc # "" THEN s2
          ELSE dict_items(s2, keys, values, i + 1,
                          Append(acc, s1.txt \o ": " \o s2.txt))

\* the loop of visit_Compare over zip(node.ops, node.comparators), from pair i
compare_loop(st, n, i) ==
  LET nd == st.heap[n]
      s1 == get_rep(st, nd.kids2[i])
  IN IF i > Len(nd.ops) \/ i > Len(nd.kids2) THEN st
     ELSE IF nd.ops[i] \notin DOMAIN compare_op_dict THEN Raise(st, "TypeError")
     ELSE IF s1.exc # "" THEN s1
     ELSE compare_loop(SetRep(s1, n, s1.reps[n][1] \o " "
                                     \o compare_op_dict[nd.ops[i]] \o " "
                                     \o s1.txt), n, i + 1)

---------------------------------------------------------------------------
(* The queries the transformer is given.  The parser of interpreter v      *)
(* decides the classes: a parameter is a Name with ctx Param (2.7) or an   *)
(* arg; a number is a Num or (3.8 on) a Constant; an index is wrapped in   *)
(* Index before 3.9.                                                       *)

Versions == {27, 37, 38, 39}

(* The nodes ast.parse makes of a query, per interpreter version v.  A query *)
(* is written as the sequence of its nodes, children before parents: the     *)
(* arguments that are nodes are positions in that sequence, 0 for None.      *)
Nm(id) == N("Name", id, 0, "Load", <<>>, <<>>, <<>>)
Cn(v, i) ==
  IF v < 38 THEN N("Num", "", i, "", <<>>, <<>>, <<>>)
  ELSE N("Constant", "", i, "int", <<>>, <<>>, <<>>)
Cs(v, s) ==
  IF v < 38 THEN N("Str", s, 0, "", <<>>, <<>>, <<>>)
  ELSE N("Constant", s, 0, "str", <<>>, <<>>, <<>>)
Ck(v, s) ==
  IF v < 30 THEN Nm(s)
  ELSE IF v < 38 THEN N("NameConstant", s, 0, "", <<>>, <<>>, <<>>)
  ELSE N("Constant", s, 0, "name", <<>>, <<>>, <<>>)
\* a parameter of a lambda
Pm(v, a) ==
  IF v < 30 THEN N("Name", a, 0, "Param", <<>>, <<>>, <<>>)
  ELSE N("arg", a, 0, "", <<>>, <<>>, <<>>)
Lam(params, body) == N("Lambda", "", 0, "", <<>>, <<body>>, params)
Un(op, operand) == N("UnaryOp", "", 0, "", <<op>>, <<operand>>, <<>>)
Bin(left, op, right) == N("BinOp", "", 0, "", <<op>>, <<left, right>>, <<>>)
Bo(op, values) == N("BoolOp", "", 0, "", <<op>>, values, <<>>)
Cmp(left, ops, comparators) ==
  N("Compare", "", 0, "", ops, <<left>>, comparators)
If(test, body, orelse) ==
  N("IfExp", "", 0, "", <<>>, <<test, body, orelse>>, <<>>)
Lst(elts) == N("List", "", 0, "", <<>>, elts, <<>>)
Tup(elts) == N("Tuple", "", 0, "", <<>>, elts, <<>>)
Dct(keys, values) == N("Dict", "", 0, "", <<>>, keys, values)
Att(value, attr) == N("Attribute", attr, 0, "", <<>>, <<value>>, <<>>)
Cl(func, args) == N("Call", "", 0, "", <<>>, <<func>>, args)
Slc(lower, upper, step) ==
  N("Slice", "", 0, "", <<>>, <<lower, upper, step>>, <<>>)
\* the slice of value[index] before Python 3.9
Index(value) == N("Index", "", 0, "", <<>>, <<value>>, <<>>)
\* the slice of value[dim, dim], slices among the dims, before Python 3.9
ExtSlice(dims) == N("ExtSlice", "", 0, "", <<>>, dims, <<>>)
Sub(value, slice) == N("Subscript", "", 0, "", <<>>, <<value, slice>>, <<>>)
\* Select, SelectMany or Where
Operator(kind, source, selector) ==
  N(kind, "", 0, "", <<>>, <<source, selector>>, <<>>)
\* a node of a class the transformer has no visit_ method for (ast.Set,
\* ast.Starred, ast.ListComp, ...)
Oth(children) == N("Other", "", 0, "", <<>>, children, <<>>)
Mod(body) == N("Module", "", 0, "", <<>>, body, <<>>)
Ex(value) == N("Expr", "", 0, "", <<>>, <<value>>, <<>>)

\* the arguments of the EventDataset calls with 0..MaxDatasetArgs arguments
DatasetArgs(v) == [i \in 1..MaxDatasetArgs |->
                     IF i = 1 THEN Cs(v, "file:///a.root")
                     ELSE IF i = 2 THEN Cs(v, "tree") ELSE Cs(v, "c")]

\* EventDataset(DatasetArgs[1], ..., DatasetArgs[k])
DatasetCall(v, k) ==
  <<Nm("EventDataset")>> \o SubSeq(DatasetArgs(v), 1, k)
  \o <<Cl(1, [i \in 1..k |-> i + 1])>>

\* lambdas and the names they bind
ScopingQueries(v) ==
  << \* lambda x: (lambda x: x)(x) + x ;  x
     <<Pm(v, "x"), Pm(v, "x"), Nm("x"), Lam(<<2>>, 3), Nm("x"), Cl(4, <<5>>),
       Nm("x"), Bin(6, "Add", 7), Lam(<<1>>, 8), Nm("x")>>,
     \* lambda x: lambda y: z ;  x ;  y
     <<Pm(v, "x"), Pm(v, "y"), Nm("z"), Lam(<<2>>, 3), Lam(<<1>>, 4), Nm("x"),
       Nm("y")>>,
     \* lambda x, x: x @ 1
     <<Pm(v, "x"), Pm(v, "x"), Nm("x"), Cn(v, 1), Bin(3, "MatMult", 4),
       Lam(<<1, 2>>, 5)>> >>

\* handlers that assign the rep before their last child is lowered
PartialQueries(v) ==
  << \* 1 < 2 <= y
     <<Cn(v, 1), Cn(v, 2), Nm("y"), Cmp(1, <<"Lt", "LtE">>, <<2, 3>>)>>,
     \* 1 < 2 <Unknown> 3
     <<Cn(v, 1), Cn(v, 2), Cn(v, 3), Cmp(1, <<"Lt", "Unknown">>, <<2, 3>>)>>,
     \* len[1::y]
     <<Nm("len"), Cn(v, 1), Nm("y"), Slc(2, 0, 3), Sub(1, 4)>>,
     \* len[:2:3, 0]
     IF v < 39
       THEN
          <<Nm("len"), Cn(v, 2), Cn(v, 3), Slc(0, 2, 3), Cn(v, 0),
            ExtSlice(<<4, 5>>), Sub(1, 6)>>
       ELSE
          <<Nm("len"), Cn(v, 2), Cn(v, 3), Slc(0, 2, 3), Cn(v, 0),
            Tup(<<4, 5>>), Sub(1, 6)>> >>

\* classes and operators without a rule, and the remaining handlers
UnsupportedQueries(v) ==
  << \* {1, len}
     <<Cn(v, 1), Nm("len"), Oth(<<1, 2>>)>>,
     \* [{y}]
     <<Nm("y"), Oth(<<1>>), Lst(<<2>>)>>,
     \* <Unknown> 1
     <<Cn(v, 1), Un("Unknown", 1)>>,
     \* 1 @ 2
     <<Cn(v, 1), Cn(v, 2), Bin(1, "MatMult", 2)>>,
     \* 1 <Unknown> 2
     <<Cn(v, 1), Cn(v, 2), Bo("Unknown", <<1, 2>>)>>,
     \* {'k': (-1,)} if True and not False else -len[1]
     IF v < 39
       THEN
          <<Ck(v, "True"), Ck(v, "False"), Un("Not", 2), Bo("And", <<1, 3>>),
            Cs(v, "k"), Cn(v, -1), Tup(<<6>>), Dct(<<5>>, <<7>>), Nm("len"),
            Cn(v, 1), Index(10), Sub(9, 11), Un("USub", 12), If(4, 8, 13),
            Ex(14), Mod(<<15>>)>>
       ELSE
          <<Ck(v, "True"), Ck(v, "False"), Un("Not", 2), Bo("And", <<1, 3>>),
            Cs(v, "k"), Cn(v, -1), Tup(<<6>>), Dct(<<5>>, <<7>>), Nm("len"),
            Cn(v, 1), Sub(9, 10), Un("USub", 11), If(4, 8, 12), Ex(13),
            Mod(<<14>>)>>,
     \* <empty module>
     <<Mod(<<>>)>> >>

\* operators whose second argument is no one-parameter lambda
ArgumentQueries(v) ==
  << \* Select(1, 2)
     <<Cn(v, 1), Cn(v, 2), Operator("Select", 1, 2)>>,
     \* Select(1, lambda a, b: a)
     <<Cn(v, 1), Pm(v, "a"), Pm(v, "b"), Nm("a"), Lam(<<2, 3>>, 4),
       Operator("Select", 1, 5)>>,
     \* Select(1, lambda: 2)
     <<Cn(v, 1), Cn(v, 2), Lam(<<>>, 2), Operator("Select", 1, 3)>>,
     \* SelectMany(1, 2)
     <<Cn(v, 1), Cn(v, 2), Operator("SelectMany", 1, 2)>>,
     \* SelectMany(1, lambda a, b: a)
     <<Cn(v, 1), Pm(v, "a"), Pm(v, "b"), Nm("a"), Lam(<<2, 3>>, 4),
       Operator("SelectMany", 1, 5)>>,
     \* SelectMany(1, lambda: 2)
     <<Cn(v, 1), Cn(v, 2), Lam(<<>>, 2), Operator("SelectMany", 1, 3)>>,
     \* Where(1, 2)
     <<Cn(v, 1), Cn(v, 2), Operator("Where", 1, 2)>>,
     \* Where(1, lambda a, b: a)
     <<Cn(v, 1), Pm(v, "a"), Pm(v, "b"), Nm("a"), Lam(<<2, 3>>, 4),
       Operator("Where", 1, 5)>>,
     \* Where(1, lambda: 2)
     <<Cn(v, 1), Cn(v, 2), Lam(<<>>, 2), Operator("Where", 1, 3)>>,
     \* Select(1, lambda r: Where(r, lambda a, b: a))
     <<Cn(v, 1), Pm(v, "r"), Nm("r"), Pm(v, "a"), Pm(v, "b"), Nm("a"),
       Lam(<<4, 5>>, 6), Operator("Where", 3, 7), Lam(<<2>>, 8),
       Operator("Select", 1, 9)>> >>

\* EventDataset calls
DatasetQueries(v) ==
  << \* EventDataset(['root://h/a.root', 'b.root'], y)
     <<Nm("EventDataset"), Cs(v, "root://h/a.root"), Cs(v, "b.root"),
       Lst(<<2, 3>>), Nm("y"), Cl(1, <<4, 5>>)>>,
     \* EventDataset(y)
     <<Nm("EventDataset"), Nm("y"), Cl(1, <<2>>)>>,
     \* EventDataset(1)
     <<Nm("EventDataset"), Cn(v, 1), Cl(1, <<2>>)>>,
     \* Select(EventDataset(), lambda row: row.a)
     <<Nm("EventDataset"), Cl(1, <<>>), Pm(v, "row"), Nm("row"), Att(4, "a"),
       Lam(<<3>>, 5), Operator("Select", 2, 6)>> >>

\* a SelectMany, and the Select its flatten rewrite should make of it
SelectManyQueries(v) ==
  << \* SelectMany(1, lambda r: [r, 2]) ;  Select(1, lambda r: [r.flatten(), (2).flatten()])
     <<Cn(v, 1), Pm(v, "r"), Nm("r"), Cn(v, 2), Lst(<<3, 4>>), Lam(<<2>>, 5),
       Operator("SelectMany", 1, 6), Cn(v, 1), Pm(v, "r"), Nm("r"),
       Att(10, "flatten"), Cl(11, <<>>), Cn(v, 2), Att(13, "flatten"),
       Cl(14, <<>>), Lst(<<12, 15>>), Lam(<<9>>, 16),
       Operator("Select", 8, 17)>>,
     \* SelectMany(1, lambda r: (r,)) ;  Select(1, lambda r: [r.flatten()])
     <<Cn(v, 1), Pm(v, "r"), Nm("r"), Tup(<<3>>), Lam(<<2>>, 4),
       Operator("SelectMany", 1, 5), Cn(v, 1), Pm(v, "r"), Nm("r"),
       Att(9, "flatten"), Cl(10, <<>>), Lst(<<11>>), Lam(<<8>>, 12),
       Operator("Select", 7, 13)>>,
     \* SelectMany(1, lambda r: {'k': r}) ;  Select(1, lambda r: {'k': r.flatten()})
     <<Cn(v, 1), Pm(v, "r"), Cs(v, "k"), Nm("r"), Dct(<<3>>, <<4>>),
       Lam(<<2>>, 5), Operator("SelectMany", 1, 6), Cn(v, 1), Pm(v, "r"),
       Cs(v, "k"), Nm("r"), Att(11, "flatten"), Cl(12, <<>>),
       Dct(<<10>>, <<13>>), Lam(<<9>>, 14), Operator("Select", 8, 15)>>,
     \* SelectMany(1, lambda r: r) ;  Select(1, lambda r: r.flatten())
     <<Cn(v, 1), Pm(v, "r"), Nm("r"), Lam(<<2>>, 3),
       Operator("SelectMany", 1, 4), Cn(v, 1), Pm(v, "r"), Nm("r"),
       Att(8, "flatten"), Cl(9, <<>>), Lam(<<7>>, 10),
       Operator("Select", 6, 11)>>,
     \* SelectMany(1, lambda r: [r < y])
     <<Cn(v, 1), Pm(v, "r"), Nm("r"), Nm("y"), Cmp(3, <<"Lt">>, <<4>>),
       Lst(<<5>>), Lam(<<2>>, 6), Operator("SelectMany", 1, 7)>> >>

\* Where, alone, nested and failing
WhereQueries(v) ==
  << \* Where(1, lambda p: p < 0)
     <<Cn(v, 1), Pm(v, "p"), Nm("p"), Cn(v, 0), Cmp(3, <<"Lt">>, <<4>>),
       Lam(<<2>>, 5), Operator("Where", 1, 6)>>,
     \* Select(1, lambda r: Where(r, lambda p: p > 0))
     <<Cn(v, 1), Pm(v, "r"), Nm("r"), Pm(v, "p"), Nm("p"), Cn(v, 0),
       Cmp(5, <<"Gt">>, <<6>>), Lam(<<4>>, 7), Operator("Where", 3, 8),
       Lam(<<2>>, 9), Operator("Select", 1, 10)>>,
     \* Where(1, lambda p: p < y)
     <<Cn(v, 1), Pm(v, "p"), Nm("p"), Nm("y"), Cmp(3, <<"Lt">>, <<4>>),
       Lam(<<2>>, 5), Operator("Where", 1, 6)>>,
     \* Where(y, lambda p: p) ;  lambda y: z
     <<Nm("y"), Pm(v, "p"), Nm("p"), Lam(<<2>>, 3), Operator("Where", 1, 4),
       Pm(v, "y"), Nm("z"), Lam(<<6>>, 7)>>,
     \* Select(y, lambda r: [r])
     <<Nm("y"), Pm(v, "r"), Nm("r"), Lst(<<3>>), Lam(<<2>>, 4),
       Operator("Select", 1, 5)>> >>

\* operators whose source names the parameter of their lambda
SourceQueries(v) ==
  << \* Select(r, lambda r: r) ;  lambda r: z
     <<Nm("r"), Pm(v, "r"), Nm("r"), Lam(<<2>>, 3), Operator("Select", 1, 4),
       Pm(v, "r"), Nm("z"), Lam(<<6>>, 7)>>,
     \* SelectMany(r, lambda r: r)
     <<Nm("r"), Pm(v, "r"), Nm("r"), Lam(<<2>>, 3),
       Operator("SelectMany", 1, 4)>>,
     \* Where(r, lambda r: r) ;  lambda r: z
     <<Nm("r"), Pm(v, "r"), Nm("r"), Lam(<<2>>, 3), Operator("Where", 1, 4),
       Pm(v, "r"), Nm("z"), Lam(<<6>>, 7)>>,
     \* Select(1, lambda r: Where(r, lambda r: r))
     <<Cn(v, 1), Pm(v, "r"), Nm("r"), Pm(v, "r"), Nm("r"), Lam(<<4>>, 5),
       Operator("Where", 3, 6), Lam(<<2>>, 7), Operator("Select", 1, 8)>>,
     \* Where(len, lambda len: len)
     <<Nm("len"), Pm(v, "len"), Nm("len"), Lam(<<2>>, 3),
       Operator("Where", 1, 4)>>,
     \* Select(ast, lambda ast: ast)
     <<Nm("ast"), Pm(v, "ast"), Nm("ast"), Lam(<<2>>, 3),
       Operator("Select", 1, 4)>> >>

Catalogue(v) ==
  ScopingQueries(v) \o PartialQueries(v) \o UnsupportedQueries(v)
  \o ArgumentQueries(v) \o [k \in 1..(MaxDatasetArgs + 1) |-> DatasetCall(v, k - 1)]
  \o DatasetQueries(v) \o SelectManyQueries(v) \o WhereQueries(v)
  \o SourceQueries(v)

---------------------------------------------------------------------------
(* The state machine.                                                      *)

RECURSIVE SumWraps(_, _)
SumWraps(w, i) ==
  IF i > Len(w) THEN 0
  ELSE w[i].record + w[i].flatten + w[i].mask + SumWraps(w, i + 1)

State == [heap |-> heap, reps |-> reps, scopes |-> scopes, wraps |-> wraps]

\* the roots of the trees of heap h: the nodes that are nobody's child
Roots(h) ==
  {n \in 1..Len(h) :
     \A m \in 1..Len(h) :
       \A j \in 1..Len(Children(h[m])) : Children(h[m])[j] # n}

\* __init__, line 48, and a parsed query nobody has lowered yet; the caller
\* holds its roots and at most one node inside it (extra = 0: none)
Init ==
  /\ ver \in Versions
  /\ \E i \in 1..Len(Catalogue(ver)) : parsed = Catalogue(ver)[i]
  /\ heap = parsed
  /\ \E extra \in 0..Len(heap) : held = (Roots(heap) \cup {extra}) \ {0}
  /\ reps = [n \in 1..Len(heap) |-> NoRep]
  /\ wraps = [n \in 1..Len(heap) |-> NoWraps]
  /\ scopes = EmptyScopes
  /\ last = [op |-> "init", node |-> 0, exc |-> "", ret |-> "",
             pre |-> [heap |-> heap, reps |-> [n \in 1..Len(heap) |-> NoRep],
                      scopes |-> EmptyScopes,
                      wraps |-> [n \in 1..Len(heap) |-> NoWraps]]]

Start ==
  [ver |-> ver, heap |-> heap, reps |-> reps, scopes |-> scopes,
   wraps |-> wraps, exc |-> "", txt |-> "", lst |-> <<>>]

\* the call returned or raised: st is the transformer and the tree after it
Returned(op, n, st) ==
  /\ SumWraps(st.wraps, 1) <= MaxRewrites
  /\ \A a \in DOMAIN st.scopes : st.scopes[a] <= MaxBindings
  /\ heap' = st.heap
  /\ reps' = st.reps
  /\ scopes' = st.scopes
  /\ wraps' = st.wraps
  /\ last' = [op |-> op, node |-> n, exc |-> st.exc,
              ret |-> IF op = "get_rep" /\ st.exc = "" THEN st.txt ELSE "",
              pre |-> State]
  /\ UNCHANGED <<ver, held, parsed>>

\* transformer.visit(node)
Visit == \E n \in held : Returned("visit", n, visit(Start, n))

\* transformer.generic_visit(node)
GenericVisit ==
  \E n \in held : Returned("generic_visit", n, generic_visit(Start, n))

\* transformer.get_rep(node), node None included
GetRep == \E n \in held \cup {0} : Returned("get_rep", n, get_rep(Start, n))

\* PythonSourceGeneratorTransformer(): another transformer for the same tree
NewTransformer ==
  /\ scopes' = EmptyScopes
  /\ last' = [op |-> "new", node |-> 0, exc |-> "", ret |-> "", pre |-> State]
  /\ UNCHANGED <<ver, held, parsed, heap, reps, wraps>>

Next == Visit \/ GenericVisit \/ GetRep \/ NewTransformer

Spec == Init /\ [][Next]_vars

---------------------------------------------------------------------------
(* The properties.  They speak of the last entry-point call (last), the    *)
(* state it started from (last.pre) and the state it left.                 *)

\* the last step was a lowering call
Lowering == last.op \in {"visit", "generic_visit", "get_rep"}
\* the last step was a call of an entry point that runs the node's handler
Lowered == last.op \in {"visit", "get_rep"} /\ last.node # 0
Succeeded == Lowering /\ last.exc = ""
Failed == Lowering /\ last.exc # ""
\* the last call was a call on a node that carried no rep
Fresh == Lowered /\ last.pre.reps[last.node] = NoRep
Operators == {"Select", "SelectMany", "Where"}

\* C1: a lowering call (visit, generic_visit, get_rep) on a node that carries
\* a rep raises nothing and changes nothing: not the tree, no node's rep, not
\* the scope table, and no rewrite runs; get_rep returns the rep the node
\* carried.  And no call ever changes a rep that was attached before it.
C1_Memoization ==
  /\ (Lowering /\ last.node # 0 /\ last.pre.reps[last.node] # NoRep) =>
       /\ last.exc = ""
       /\ State = last.pre
       /\ last.op = "get_rep" => last.ret = last.pre.reps[last.node][1]
  /\ Lowering =>
       \A m \in 1..Len(last.pre.reps) :
         last.pre.reps[m] # NoRep => reps[m] = last.pre.reps[m]

\* a second visit of a lowered Where: the handler would wrap the body again
C1_Witness ==
  /\ last.op = "visit"
  /\ last.node # 0
  /\ heap[last.node].kind = "Where"
  /\ last.pre.reps[last.node] # NoRep
  /\ wraps[last.node].mask = 1

\* C2: no name is in the scope table with count 0; a lowering call that
\* completes leaves the scope table as it found it; and the table is empty
\* when a successful pass over a tree (a call on its root) returns.
C2_ScopeDiscipline ==
  /\ \A a \in DOMAIN scopes : scopes[a] > 0
  /\ Succeeded => scopes = last.pre.scopes
  /\ (Succeeded /\ last.node \in Roots(parsed)) => scopes = EmptyScopes

\* C3: a lowering call that raises leaves the scope table as it was before
\* the call.
C3_ScopeUnwoundOnFailure == Failed => scopes = last.pre.scopes

\* C4: every rep attached to a comparison or a slice embeds the rep of every
\* child of the node, and a call that fails on a node that had no rep leaves
\* it without one.
C4_NoPartialRep ==
  /\ \A m \in 1..Len(heap) :
       (reps[m] # NoRep /\ heap[m].kind \in {"Compare", "Slice"}) =>
         \A j \in 1..Len(Children(heap[m])) :
           Children(heap[m])[j] # 0 => reps[Children(heap[m])[j]] # NoRep
  /\ (Failed /\ Fresh) => reps[last.node] = NoRep

\* what Select, SelectMany and Where require of their second argument is
\* missing from node lam of heap h
NotOneParameterLambda(h, lam) ==
  \/ lam = 0
  \/ h[lam].kind # "Lambda"
  \/ Len(h[lam].kids2) # 1

\* C5: a call lowering a Select, SelectMany or Where whose second argument
\* is no lambda, or a lambda with a number of parameters other than one,
\* raises TypeError and leaves the scope table (and the tree, and every rep)
\* as it was before the call.
C5_ArgumentValidation ==
  (/\ Fresh
   /\ last.pre.heap[last.node].kind \in Operators
   /\ NotOneParameterLambda(last.pre.heap, last.pre.heap[last.node].kids[2]))
  => /\ last.exc = "TypeError"
     /\ State = last.pre

\* a Where with a two-parameter lambda, refused while a binding is in scope
C5_Witness ==
  /\ Fresh
  /\ heap[last.node].kind = "Where"
  /\ heap[heap[last.node].kids[2]].kind = "Lambda"
  /\ Len(heap[heap[last.node].kids[2]].kids2) = 2
  /\ last.exc = "TypeError"
  /\ scopes # EmptyScopes

\* the last call lowered an EventDataset call that had no rep
DatasetCallLowered ==
  /\ Fresh
  /\ last.pre.heap[last.node].kind = "Call"
  /\ last.pre.heap[last.pre.heap[last.node].kids[1]].kind = "Name"
  /\ last.pre.heap[last.pre.heap[last.node].kids[1]].s = "EventDataset"

\* the schema name of a dataset that names none: tree_name, else discovery on
\* the first file of the runtime input
RuntimeTreeName ==
  "(tree_name if tree_name is not None else (lambda key_array: "
  \o "key_array[key_array[:, 1] == 'TTree'][:, 0])(awkward.Table("
  \o "uproot.open(input_files[0]).classnames()).unzip()[0])[0])"

\* C6: lowering an EventDataset call with more than two arguments raises
\* TypeError and attaches no rep (nothing changes); with no argument it
\* succeeds, and the rep applies the reader to input_filenames alone, with
\* the tree name tree_name or else the discovery expression.
C6_DatasetArity ==
  /\ (DatasetCallLowered /\ Len(last.pre.heap[last.node].kids2) > 2) =>
       /\ last.exc = "TypeError"
       /\ State = last.pre
  /\ (DatasetCallLowered /\ Len(last.pre.heap[last.node].kids2) = 0) =>
       /\ last.exc = ""
       /\ reps[last.node] =
            <<"(lambda input_files: uproot.lazyarrays(input_files, "
              \o "logging.getLogger(__name__).info('Using treename=' + repr("
              \o RuntimeTreeName \o ")) or " \o RuntimeTreeName
              \o "))(input_filenames)">>

\* an EventDataset call with three arguments was refused
C6_Witness ==
  /\ DatasetCallLowered
  /\ Len(heap[last.node].kids2) = 3
  /\ last.exc = "TypeError"
  /\ reps[last.node] = NoRep

\* node n of heap h has no lowering rule: its class has no handler, or it is
\* an operation whose operator is in none of the operator tables
Unsupported(h, n) ==
  \/ h[n].kind = "Other"
  \/ h[n].kind = "UnaryOp" /\ h[n].ops[1] \notin DOMAIN unary_op_dict \cup {"Not"}
  \/ h[n].kind = "BinOp" /\ h[n].ops[1] \notin DOMAIN bin_op_dict
  \/ h[n].kind = "BoolOp" /\ h[n].ops[1] \notin DOMAIN bool_op_dict
  \/ h[n].kind = "Compare"
       /\ \E j \in 1..Len(h[n].ops) : h[n].ops[j] \notin DOMAIN compare_op_dict

\* C7: visit or get_rep on a node without a lowering rule raises, and the
\* node has no rep afterwards.
C7_UnsupportedIsFatal ==
  (Fresh /\ Unsupported(last.pre.heap, last.node)) =>
    /\ last.exc # ""
    /\ reps[last.node] = NoRep

\* node c of heap h is awkward.Table(...)
IsRecord(h, c) ==
  /\ c # 0
  /\ h[c].kind = "Call"
  /\ h[c].kids[1] # 0
  /\ h[h[c].kids[1]].kind = "Attribute"
  /\ h[h[c].kids[1]].s = "Table"
  /\ h[h[h[c].kids[1]].kids[1]].kind = "Name"
  /\ h[h[h[c].kids[1]].kids[1]].s = "awkward"

\* node c of heap h is record.flatten(), record an awkward.Table(...)
IsFlattenedRecord(h, c) ==
  /\ c # 0
  /\ h[c].kind = "Call"
  /\ h[c].kids[1] # 0
  /\ h[h[c].kids[1]].kind = "Attribute"
  /\ h[h[c].kids[1]].s = "flatten"
  /\ IsRecord(h, h[h[c].kids[1]].kids[1])

\* C8: a lowered SelectMany has the rep of the Select over its flattened
\* elements (of the two roots of a query, a SelectMany and that Select, both
\* lowered, the reps are equal), and the body it was lowered with is never a
\* flatten of the constructed record.
C8_FlattenThenRecord ==
  /\ \A a, b \in Roots(parsed) :
       (/\ heap[a].kind = "SelectMany" /\ heap[b].kind = "Select"
        /\ reps[a] # NoRep /\ reps[b] # NoRep) => reps[a] = reps[b]
  /\ \A n \in 1..Len(parsed) :
       (heap[n].kind = "SelectMany" /\ reps[n] # NoRep) =>
         ~IsFlattenedRecord(heap, heap[heap[n].kids[2]].kids[1])

\* C9: the rep of a lowered Where is the call of the lambda that indexes its
\* parameter by the lowered predicate body, on the lowered source.
C9_WhereIsMaskIndexing ==
  \A n \in 1..Len(parsed) :
    (parsed[n].kind = "Where" /\ reps[n] # NoRep) =>
      LET p == parsed[parsed[parsed[n].kids[2]].kids2[1]].s
          body == parsed[parsed[n].kids[2]].kids[1]
          source == parsed[n].kids[1]
      IN /\ reps[body] # NoRep
         /\ reps[source] # NoRep
         /\ reps[n] = <<"(lambda " \o p \o ": " \o p \o "[" \o reps[body][1]
                        \o "])(" \o reps[source][1] \o ")">>

\* C10: on no Select, SelectMany or Where node does the record rewrite, the
\* flatten rewrite or the mask rewrite run more than once.
C10_OneRewritePerOperator ==
  \A n \in 1..Len(wraps) :
    /\ wraps[n].record <= 1
    /\ wraps[n].flatten <= 1
    /\ wraps[n].mask <= 1

\* in heap h the source of operator node n is a name that no rep is attached
\* to, the same name as the one parameter of the operator's lambda, and not
\* one that resolve_id knows without a binding
SourceNamesParameter(h, r, n) ==
  /\ h[n].kind \in Operators
  /\ ~NotOneParameterLambda(h, h[n].kids[2])
  /\ h[n].kids[1] # 0
  /\ h[h[n].kids[1]].kind = "Name"
  /\ h[h[n].kids[1]].vt # "Param"
  /\ h[h[n].kids[1]].s = h[h[h[n].kids[2]].kids2[1]].s
  /\ r[h[n].kids[1]] = NoRep
  /\ ~resolve_id(EmptyScopes, h[h[n].kids[1]].s)

\* C11: a call lowering a Select, SelectMany or Where whose source is the
\* name of its lambda's parameter, a name no built-in and no global has,
\* raises NameError (no lambda encloses the node an entry point is called
\* on), and neither the source nor the operator gets a rep.
C11_SourceOutsideScope ==
  (Fresh /\ SourceNamesParameter(last.pre.heap, last.pre.reps, last.node))
  => /\ last.exc = "NameError"
     /\ reps[last.pre.heap[last.node].kids[1]] = NoRep
     /\ reps[last.node] = NoRep

=============================================================================
